---------------------------- MODULE Spec2Model ----------------------------
(***************************************************************************)
(* A model of the MarketWatch / Wayback Machine scraper                    *)
(* (src/src/marketwatch_scrapper/marketwatch_scrapper.py).                 *)
(*                                                                         *)
(* Text is modelled as a sequence of tokens.  A token is one character     *)
(* ("-", "/", "|", ",", a digit, a letter) or one of the multi-character   *)
(* literals the code searches for ("https://", "http://", "wsj", "US:" ...).*)
(* No single-character token of the alphabets used below is a letter of a  *)
(* multi-character token, so a search for a literal in the Python string   *)
(* is a search for its token in the sequence.                              *)
(***************************************************************************)
EXTENDS Integers, Sequences, FiniteSets, TLC

VARIABLES
    pc,            \* where download() is
    max_workers,   \* self.max_workers
    records,       \* self.records: the list get_all_records returned
    dtasks,        \* the futures of get_all_article_links' executor
    collected,     \* the futures whose result the current loop has taken
    all_links,     \* all_links of get_all_article_links
    article_links, \* self.article_links: the groups of variants
    xtasks,        \* the futures of download()'s executor
    all_articles,  \* all_articles of download()
    hist,          \* history: what the crawl has done so far
    fetch,         \* one call of safe_get
    ia,            \* one call of is_article
    ag,            \* one run of the grouping of get_all_article_links
    ex             \* one pass of process_article_url's loop body

vars == <<pc, max_workers, records, dtasks, collected, all_links, article_links,
          xtasks, all_articles, hist, fetch, ia, ag, ex>>

crawlVars == <<pc, max_workers, records, dtasks, collected, all_links,
               article_links, xtasks, all_articles, hist>>

Off == [pc |-> "off"]

\* The state of download() before it is called; also the value the crawl's
\* variables keep in the specifications of the single functions.
CrawlOff ==
    /\ pc = "Idle"
    /\ max_workers = 1
    /\ records = << >>
    /\ dtasks = << >>
    /\ collected = << >>
    /\ all_links = << >>
    /\ article_links = << >>
    /\ xtasks = << >>
    /\ all_articles = << >>
    /\ hist = [index |-> "unset", pageFetches |-> 0, aggRuns |-> 0,
               dfinished |-> << >>, xfinished |-> << >>]

---------------------------------------------------------------------------
(* Strings *)

Digits == {"0", "1", "2", "3", "4", "5", "6", "7", "8", "9"}

\* The position of the last occurrence of tok in s, 0 when there is none.
LastIndexOf(s, tok) ==
    LET at == {i \in 1..Len(s) : s[i] = tok}
    IN  IF at = {} THEN 0 ELSE CHOOSE i \in at : \A j \in at : j <= i

\* s.rsplit(tok, 1)[-1]
AfterLast(s, tok) == SubSeq(s, LastIndexOf(s, tok) + 1, Len(s))

\* len(re.compile(r'\d').findall(s))
DigitCount(s) == Cardinality({i \in 1..Len(s) : s[i] \in Digits})

Contains(s, tok) == \E i \in 1..Len(s) : s[i] = tok

\* All sequences over S of length at most n.
SeqsUpTo(S, n) == UNION {[1..k -> S] : k \in 0..n}

---------------------------------------------------------------------------
(* is_article *)

\* A bug is_article could have: the comment's "at least 3 digits".
is_article_AtLeast3(url) ==
    LET u == AfterLast(url, "https://")
    IN  IF ~Contains(u, "-") THEN FALSE
        ELSE DigitCount(AfterLast(u, "-")) >= 3

is_article(url) ==
    LET u == AfterLast(url, "https://")
    IN  IF ~Contains(u, "-") THEN FALSE
        ELSE DigitCount(AfterLast(u, "-")) > 3

MaxTailLen == 6

IaAlphabet == {"-", "/", "1", "a"}

\* What comes before the part of the URL that is enumerated.
IaHeads == { << >>,
             <<"https://">>,
             <<"https://", "a", "-", "1", "/">>,
             <<"https://", "a", "-", "1", "1", "1", "1", "/", "https://">> }

IaUrls == {h \o t : h \in IaHeads, t \in SeqsUpTo(IaAlphabet, MaxTailLen)}

InitIa ==
    /\ CrawlOff
    /\ fetch = Off /\ ag = Off /\ ex = Off
    /\ \E u \in IaUrls : ia = [pc |-> "call", url |-> u]

IsArticleCall ==
    /\ ia.pc = "call"
    /\ ia' = [pc |-> "done", url |-> ia.url, result |-> is_article(ia.url)]
    /\ UNCHANGED <<crawlVars, fetch, ag, ex>>

NextIa == IsArticleCall

SpecIsArticle == InitIa /\ [][NextIa]_vars

\* The URL's last path segment: what follows the last "/" (of the path or
\* of a scheme).
LastSegment(url) ==
    LET cut == {i \in 1..Len(url) : url[i] \in {"/", "https://", "http://"}}
        last == IF cut = {} THEN 0 ELSE CHOOSE i \in cut : \A j \in cut : j <= i
    IN  SubSeq(url, last + 1, Len(url))

---------------------------------------------------------------------------
(* The grouping of get_all_article_links (lines 388-398) *)

DigitVal(d) ==
    CASE d = "0" -> 0 [] d = "1" -> 1 [] d = "2" -> 2 [] d = "3" -> 3
      [] d = "4" -> 4 [] d = "5" -> 5 [] d = "6" -> 6 [] d = "7" -> 7
      [] d = "8" -> 8 [] d = "9" -> 9

\* df['url'].str.extract(r'(\d{8})')[0]: the first 8 digits in a row, << >>
\* (NaN) when the URL has none.
FirstDigits8(url) ==
    LET at == {i \in 1..(Len(url) - 7) : \A j \in i..(i + 7) : url[j] \in Digits}
    IN  IF at = {} THEN << >>
        ELSE LET i == CHOOSE k \in at : \A j \in at : k <= j
             IN  SubSeq(url, i, i + 7)

DaysInMonth(y, m) ==
    IF m \in {4, 6, 9, 11} THEN 30
    ELSE IF m # 2 THEN 31
    ELSE IF (y % 4 = 0 /\ y % 100 # 0) \/ y % 400 = 0 THEN 29 ELSE 28

\* Whether pd.to_datetime(..., format='%Y%m%d') takes the 8 digits: NaN
\* becomes NaT, anything that is no calendar day raises ValueError.  (The
\* years of the URLs used here lie within pandas' range.)
ParsesAsDate(d8) ==
    \/ d8 = << >>
    \/ LET y == 1000 * DigitVal(d8[1]) + 100 * DigitVal(d8[2])
                + 10 * DigitVal(d8[3]) + DigitVal(d8[4])
           m == 10 * DigitVal(d8[5]) + DigitVal(d8[6])
           d == 10 * DigitVal(d8[7]) + DigitVal(d8[8])
       IN  /\ m \in 1..12
           /\ d \in 1..DaysInMonth(y, m)

\* A bug the key could have: only a leading scheme is stripped.
article_url_LeadingScheme(url) ==
    IF url # << >> /\ url[1] = "https://" THEN Tail(url) ELSE url

\* lambda x: x.rsplit('https://', 1)[-1]
article_url(url) == AfterLast(url, "https://")

\* The first character's code (times 10, so that "http://" sorts before
\* "https://"): Python compares str by code point.
TokRank(t) ==
    CASE t = "-" -> 450 [] t = "/" -> 470 [] t \in Digits -> 480 + 10 * DigitVal(t)
      [] t = "?mod" -> 630
      [] t = "a" -> 970 [] t = "b" -> 980 [] t = "http://" -> 1040
      [] t = "https://" -> 1041 [] t = "s" -> 1150 [] t = "video" -> 1180
      [] t = "w" -> 1190

\* a < b as Python strings
RECURSIVE StrLess(_, _)
StrLess(a, b) ==
    IF b = << >> THEN FALSE
    ELSE IF a = << >> THEN TRUE
    ELSE IF a[1] # b[1] THEN TokRank(a[1]) < TokRank(b[1])
    ELSE StrLess(Tail(a), Tail(b))

\* The distinct keys in increasing order (groupby sorts its keys).
RECURSIVE SortedKeys(_)
SortedKeys(K) ==
    IF K = {} THEN << >>
    ELSE LET m == CHOOSE k \in K : \A o \in K \ {k} : StrLess(k, o)
         IN  <<m>> \o SortedKeys(K \ {m})

\* Lines 388-398: the list of the groups' url lists, or the ValueError of
\* to_datetime.
Aggregate(links) ==
    IF \E i \in 1..Len(links) : ~ParsesAsDate(FirstDigits8(links[i]))
    THEN [raised |-> TRUE, groups |-> << >>]
    ELSE LET keys == SortedKeys({article_url(links[i]) : i \in 1..Len(links)})
             InGroup(k) == LET Is(u) == article_url(u) = k
                           IN  SelectSeq(links, Is)
         IN  [raised |-> FALSE,
              groups |-> [g \in 1..Len(keys) |-> InGroup(keys[g])]]

Ts1 == <<"2", "0", "2", "5", "0", "1", "1", "0">>
Ts2 == <<"2", "0", "2", "5", "0", "1", "1", "1">>
StoryA == <<"s", "/", "a", "-", "1", "2", "3", "4">>
StoryB == <<"s", "/", "b", "-", "1", "2", "3", "4">>
Archived(ts, orig) == <<"https://", "w", "/">> \o ts \o <<"/">> \o orig

\* A link whose first 8 digits in a row are a story id and no date.
BadDateLink ==
    <<"https://", "s", "/", "b", "-", "9", "9", "9", "9", "9", "9", "9", "9">>

\* Links extract_article_links can return: live and archived copies of two
\* stories, and the link without a date.
LinkPool ==
    { <<"https://">> \o StoryA,
      <<"http://">> \o StoryA,
      Archived(Ts1, <<"https://">> \o StoryA),
      Archived(Ts2, <<"https://">> \o StoryA),
      Archived(Ts1, <<"http://">> \o StoryA),
      <<"https://">> \o StoryB,
      BadDateLink }

MaxLinks == 3

InitAg ==
    /\ CrawlOff
    /\ fetch = Off /\ ia = Off /\ ex = Off
    /\ \E l \in SeqsUpTo({u \in LinkPool : is_article(u)}, MaxLinks) :
           ag = [pc |-> "call", links |-> l]

AggregateCall ==
    /\ ag.pc = "call"
    /\ ag' = [pc |-> "done", links |-> ag.links, out |-> Aggregate(ag.links)]
    /\ UNCHANGED <<crawlVars, fetch, ia, ex>>

NextAg == AggregateCall

SpecAggregate == InitAg /\ [][NextAg]_vars

\* The URL without its leading scheme.
SchemeStripped(url) ==
    IF url # << >> /\ url[1] \in {"https://", "http://"} THEN Tail(url) ELSE url

\* The grouping has returned its list of groups.
AgReturned == ag.pc = "done" /\ ~ag.out.raised

IsSubsequenceInOrder(sub, full) ==
    \E f \in [1..Len(sub) -> 1..Len(full)] :
        /\ \A i \in 1..Len(sub) : full[f[i]] = sub[i]
        /\ \A i, j \in 1..Len(sub) : i < j => f[i] < f[j]

\* sub is full with some of its rows left out.
\* (IsSubsequenceInOrder is used for the order of a group's variants.)
\* Every link is in exactly as many group slots as it has copies in the input.
AgPartition ==
    \A u \in LinkPool :
        Cardinality({i \in 1..Len(ag.links) : ag.links[i] = u})
        = Cardinality({p \in (1..Len(ag.out.groups)) \X (1..MaxLinks + 1) :
                         /\ p[2] <= Len(ag.out.groups[p[1]])
                         /\ ag.out.groups[p[1]][p[2]] = u})

TailKey(url) ==
    CHOOSE t \in {SubSeq(url, i, Len(url)) : i \in 1..(Len(url) + 1)} :
        /\ ~Contains(t, "https://")
        /\ \/ Len(t) = Len(url)
           \/ url[Len(url) - Len(t)] = "https://"

---------------------------------------------------------------------------
(* safe_get on a session of create_session *)

\* Retry(total=8, ...)
Total == 8

\* status_forcelist
StatusForcelist == {429, 500, 502, 503, 504}

\* What one HTTP attempt of the adapter can end in: a transport failure
\* (no response) or a response with a status.
Failed(e) == [err |-> e, status |-> 0]
Response(code) == [err |-> "", status |-> code]
TransportFailures == {Failed("ConnectionError"), Failed("ReadTimeout")}
StatusCodes == {200, 204, 404} \cup StatusForcelist
AttemptOutcomes == TransportFailures \cup {Response(c) : c \in StatusCodes}

\* Python's None, as safe_get returns it.
None == [err |-> "None", status |-> 0]
Unset == [err |-> "unset", status |-> 0]

\* Retry.is_retry / Retry.increment as create_session configures them:
\* GET is an allowed method, so a transport failure or a forced status is
\* retried.
IsRetryable(o) == o \in TransportFailures \/ o.status \in StatusForcelist

\* The exceptions of requests that session.get / raise_for_status raise
\* here, all of them subclasses of requests.RequestException.
RequestExceptions == {"ConnectionError", "RetryError", "HTTPError"}

\* A bug safe_get could have: an except clause for HTTPError alone.
Caught_HTTPErrorOnly(e) == e = "HTTPError"

\* except requests.RequestException (line 72)
Caught(e) == e \in RequestExceptions

InitFetch ==
    /\ CrawlOff
    /\ ia = Off /\ ag = Off /\ ex = Off
    /\ fetch = [pc |-> "sleep", left |-> Total, requests |-> 0,
                retriedOn |-> {}, last |-> Unset, result |-> Unset]

\* time.sleep(random.uniform(1.0, 2.0)) (line 66)
Throttle ==
    /\ fetch.pc = "sleep"
    /\ fetch' = [fetch EXCEPT !.pc = "request"]
    /\ UNCHANGED <<crawlVars, ia, ag, ex>>

\* How safe_get leaves its try block when exception e is raised in it.
Except(f, e) ==
    IF Caught(e) THEN [f EXCEPT !.pc = "returned", !.result = None]
    ELSE [f EXCEPT !.pc = "raised", !.result = Failed(e)]

\* One HTTP request of session.get (line 69), and what follows it: a retry
\* while the Retry object has retries left, else the exception; for a
\* response that is not retried, raise_for_status (line 70) and the return.
Request ==
    /\ fetch.pc = "request"
    /\ \E o \in AttemptOutcomes :
        LET f == [fetch EXCEPT !.requests = @ + 1, !.last = o]
        IN  fetch' =
                 IF IsRetryable(o)
                 THEN IF fetch.left > 0
                      THEN [f EXCEPT !.left = @ - 1,
                                     !.retriedOn = @ \cup {o}]
                      ELSE Except(f, IF o \in TransportFailures
                                     THEN "ConnectionError" ELSE "RetryError")
                 ELSE IF o.status >= 400
                      THEN Except(f, "HTTPError")
                      ELSE [f EXCEPT !.pc = "returned", !.result = o]
    /\ UNCHANGED <<crawlVars, ia, ag, ex>>

NextFetch == Throttle \/ Request

SpecFetch == InitFetch /\ [][NextFetch]_vars

---------------------------------------------------------------------------
(* process_article_url *)

\* A keyword string is a sequence of tokens; "," separates the keywords.
RECURSIVE SplitComma(_)
SplitComma(s) ==
    LET at == {i \in 1..Len(s) : s[i] = ","}
    IN  IF at = {} THEN <<s>>
        ELSE LET i == CHOOSE k \in at : \A j \in at : k <= j
             IN  <<SubSeq(s, 1, i - 1)>> \o SplitComma(SubSeq(s, i + 1, Len(s)))

\* ','.join(l)
RECURSIVE JoinComma(_)
JoinComma(l) ==
    IF l = << >> THEN << >>
    ELSE IF Len(l) = 1 THEN l[1]
    ELSE l[1] \o <<",">> \o JoinComma(Tail(l))

\* str.lower of one token
Lower(t) ==
    CASE t = "WSJ" -> "wsj" [] t = "SYND" -> "synd" [] t = "LINK|" -> "link|"
      [] t = "US:" -> "us:" [] t = "AAPL" -> "aapl" [] t = "Filter" -> "filter"
      [] OTHER -> t

\* excluded_keywords = re.compile([...]) (lines 226-235): re.compile takes a
\* str or a compiled pattern; given a list it raises TypeError (the list is
\* unhashable in the pattern cache), so no pattern object is ever bound.
CompileExcludedKeywords == [raised |-> TRUE, exc |-> "TypeError"]

\* excluded_keywords.search(keyword), were the eight fragments one pattern
\* of alternatives.
ExcludedSearch(k) ==
    \/ (k # << >> /\ \A i \in 1..Len(k) : k[i] \in Digits)
    \/ (k # << >> /\ k[1] = "LINK|")
    \/ Contains(k, "WSJ")
    \/ k = <<"SYND">>
    \/ \E t \in {"factiva", "filter", "gfx-", "factset"} : Contains(k, t)

\* keyword.replace('wsj', '')
RemoveWsj(k) == LET NotWsj(t) == t # "wsj" IN SelectSeq(k, NotWsj)

\* Lines 236-241: the keywords field from the list of keywords.
KeywordsField(kws) ==
    LET Kept(k) == ~ExcludedSearch(k)
        stripped == LET l == SelectSeq(kws, Kept)
                    IN  [i \in 1..Len(l) |-> RemoveWsj(l[i])]
        Safe(k) == ~\E i \in 1..Len(k) : Lower(k[i]) \in {"factiva", "filter"}
    IN  JoinComma(SelectSeq(stripped, Safe))

\* Line 243: the companies field from the keywords field.
CompaniesField(keywords) ==
    LET HasUS(k) == Contains(k, "US:")
    IN  JoinComma(SelectSeq(SplitComma(keywords), HasUS))

\* What the world does to one variant: safe_get returns None, or a response
\* whose status is not 200, or a page on which newspaper's download / parse /
\* nlp raises, or a page it parses, with the page's keyword string.
Parsed(kw) == [kind |-> "parsed", kw |-> kw]
FetchFailed == [kind |-> "fetch_failed", kw |-> << >>]
Not200 == [kind |-> "not_200", kw |-> << >>]
ParserRaised == [kind |-> "parser_raised", kw |-> << >>]

NoRecord == [url |-> << >>, keywords |-> << >>, companies |-> << >>]

\* A call of process_article_url(urls, session) before its loop starts.
\* fetched: the variants safe_get was called for, in call order; firstGood:
\* the first variant that was fetched with 200 and parsed (0: none so far),
\* goodKw its keyword string.
NewCall(urls) ==
    [urls |-> urls, i |-> 1, fetched |-> << >>, firstGood |-> 0,
     goodKw |-> << >>, returned |-> FALSE, result |-> NoRecord]

\* One pass of the loop body (lines 194-273) for variant c.i under outcome
\* o.  Of the record only url, keywords and companies are modelled.
TryVariant(c, o) ==
    LET url == c.urls[c.i]
        seen == [c EXCEPT !.fetched = Append(@, url),
                          !.firstGood = IF @ = 0 /\ o.kind = "parsed"
                                        THEN c.i ELSE @,
                          !.goodKw = IF c.firstGood = 0 /\ o.kind = "parsed"
                                     THEN o.kw ELSE @]
        continue == [seen EXCEPT !.i = @ + 1]
    IN  IF o.kind \in {"fetch_failed", "not_200"} THEN continue
        ELSE IF o.kind = "parser_raised" THEN continue
        ELSE IF CompileExcludedKeywords.raised THEN continue
        ELSE LET keywords == KeywordsField(SplitComma(o.kw))
             IN  [seen EXCEPT !.returned = TRUE,
                              !.result = [url |-> url,
                                          keywords |-> keywords,
                                          companies |-> CompaniesField(keywords)]]

\* The loop is over: the bare return of line 274.
ReturnNone(c) == [c EXCEPT !.returned = TRUE, !.result = NoRecord]

KwExample ==
    <<"wsj", "-", "markets", ",", "LINK|", "1", "2", "3", ",", "US:", "AAPL",
      ",", "factset", "-", "data">>

KwInputs ==
    { KwExample,
      <<"1", "2", ",", "SYND", ",", "WSJ", "-", "x", ",", "US:", "AAPL">>,
      <<"Filter", ",", "markets">>,
      << >> }

MaxVariants == 3

VariantLists ==
    {l \in SeqsUpTo({u \in LinkPool : article_url(u) = StoryA}, MaxVariants) :
        /\ l # << >>
        /\ \A i, j \in 1..Len(l) : i # j => l[i] # l[j]}

InitEx ==
    /\ CrawlOff
    /\ fetch = Off /\ ia = Off /\ ag = Off
    /\ \E l \in VariantLists : ex = NewCall(l)

ExFetchFails ==
    /\ ~ex.returned /\ ex.i <= Len(ex.urls)
    /\ \E o \in {FetchFailed, Not200} : ex' = TryVariant(ex, o)
    /\ UNCHANGED <<crawlVars, fetch, ia, ag>>

ExParserRaises ==
    /\ ~ex.returned /\ ex.i <= Len(ex.urls)
    /\ ex' = TryVariant(ex, ParserRaised)
    /\ UNCHANGED <<crawlVars, fetch, ia, ag>>

ExPageParsed ==
    /\ ~ex.returned /\ ex.i <= Len(ex.urls)
    /\ \E kw \in KwInputs : ex' = TryVariant(ex, Parsed(kw))
    /\ UNCHANGED <<crawlVars, fetch, ia, ag>>

ExReturnNone ==
    /\ ~ex.returned /\ ex.i > Len(ex.urls)
    /\ ex' = ReturnNone(ex)
    /\ UNCHANGED <<crawlVars, fetch, ia, ag>>

NextEx == ExFetchFails \/ ExParserRaises \/ ExPageParsed \/ ExReturnNone

SpecExtract == InitEx /\ [][NextEx]_vars

\* C1 as stated: the variants are fetched in list order, and the call
\* returns the record of the first variant that is fetched with status 200
\* and parsed, without fetching a later one; it returns None only when no
\* variant is.
C1_FirstGoodVariantWins ==
    /\ ex.fetched = SubSeq(ex.urls, 1, Len(ex.fetched))
    /\ ex.returned =>
        IF ex.firstGood = 0 THEN ex.result = NoRecord
        ELSE /\ ex.result # NoRecord
             /\ ex.result.url = ex.urls[ex.firstGood]
             /\ Len(ex.fetched) = ex.firstGood

\* The keywords of s that match none of the exclusion patterns, with "wsj"
\* removed, and the companies among them.
C7_Survivors(s) ==
    LET kws == SplitComma(s)
        Survives(k) ==
            /\ ~(k # << >> /\ \A i \in 1..Len(k) : k[i] \in Digits)
            /\ ~(k # << >> /\ k[1] = "LINK|")
            /\ k # <<"SYND">>
            /\ \A i \in 1..Len(k) :
                   k[i] \notin {"WSJ", "factiva", "filter", "gfx-", "factset"}
        l == SelectSeq(kws, Survives)
    IN  [i \in 1..Len(l) |-> RemoveWsj(l[i])]

\* C7 as stated: for a page that fetches and parses, the record's keywords
\* are the comma-join of the surviving keywords and its companies the
\* comma-join of the survivors that contain "US:"; the example input gives
\* "-markets,US:AAPL" and "US:AAPL".
C7_KeywordsFiltered ==
    (ex.returned /\ ex.firstGood # 0) =>
        /\ ex.result # NoRecord
        /\ ex.result.keywords = JoinComma(C7_Survivors(ex.goodKw))
        /\ ex.result.companies =
               LET HasUS(k) == Contains(k, "US:")
               IN  JoinComma(SelectSeq(C7_Survivors(ex.goodKw), HasUS))
        /\ ex.goodKw = KwExample =>
               /\ ex.result.keywords = <<"-", "markets", ",", "US:", "AAPL">>
               /\ ex.result.companies = <<"US:", "AAPL">>

---------------------------------------------------------------------------
(* extract_article_links *)

\* The EXCLUDE_PATTERNS that are tokens of the pages used here.
ExcludeTokens == {"video", "#"}

\* href.rsplit('?mod', 1)[0]
BeforeLast(s, tok) ==
    IF Contains(s, tok) THEN SubSeq(s, 1, LastIndexOf(s, tok) - 1) ELSE s

\* Lines 165-183: the set of the article links among the hrefs of a page.
extract_article_links(hrefs) ==
    LET Skipped(h) ==
            \/ h = << >>
            \/ h[1] = "#"
            \/ \E i \in 1..Len(h) : Lower(h[i]) \in ExcludeTokens
            \/ h[1] \notin {"http://", "https://"}
    IN  { BeforeLast(hrefs[i], "?mod") :
            i \in {j \in 1..Len(hrefs) :
                     /\ ~Skipped(hrefs[j])
                     /\ is_article(BeforeLast(hrefs[j], "?mod"))} }

\* list(set(...)): the elements of S in any order.
ListsOf(S) ==
    {l \in [1..Cardinality(S) -> S] : \A i, j \in 1..Cardinality(S) :
                                          i # j => l[i] # l[j]}

\* The anchors of the snapshot pages of the model.
Pages ==
    { << <<"/", "a">>, <<"#">> >>,
      << Archived(Ts1, <<"https://">> \o StoryA),
         Archived(Ts1, <<"https://">> \o StoryA) \o <<"?mod", "a">>,
         Archived(Ts1, <<"https://", "s", "/", "video", "-", "1", "2", "3", "4">>) >>,
      << Archived(Ts2, <<"https://">> \o StoryA),
         <<"https://">> \o StoryB,
         <<"https://", "s", "/", "a", "-", "1", "2", "3">> >>,
      << <<"http://">> \o StoryA >>,
      << BadDateLink >> }

---------------------------------------------------------------------------
(* MarketWatchScrapper.download *)

MaxWorkers == 2
MaxRows == 2

\* self.topics of the crawls of the model
Topics == <<"/markets">>

\* Lines 347-350: one record per row and topic (no_of_captures is -1, the
\* default, so no sampling).
FanOut(rows) ==
    [k \in 1..(Len(rows) * Len(Topics)) |->
        [timestamp |-> rows[((k - 1) \div Len(Topics)) + 1],
         topic |-> Topics[((k - 1) % Len(Topics)) + 1]]]

\* A future: queued, running or done, with what the task returned.
QueuedTasks(n, payload(_)) ==
    [i \in 1..n |-> [st |-> "queued", out |-> payload(i)]]

Running(tasks) == {i \in 1..Len(tasks) : tasks[i].st = "running"}

\* A bug the pool could have: no limit on the threads.
CanStart_Unbounded(tasks, i, workers) ==
    /\ tasks[i].st = "queued"
    /\ \A j \in 1..(i - 1) : tasks[j].st # "queued"

\* ThreadPoolExecutor(max_workers): a queued task starts when it is the
\* first in the queue and fewer than max_workers tasks are running.
CanStart(tasks, i, workers) ==
    /\ tasks[i].st = "queued"
    /\ \A j \in 1..(i - 1) : tasks[j].st # "queued"
    /\ Cardinality(Running(tasks)) < workers

\* A bug the loops could have: results taken as they complete.
NextCollectable_AsCompleted(tasks, taken) ==
    {i \in 1..Len(tasks) :
        tasks[i].st = "done" /\ \A k \in 1..Len(taken) : taken[k] # i}

\* for future in futures: result = future.result() (lines 383-384 and
\* 428-429): the next future in list order, once it is done.
NextCollectable(tasks, taken) ==
    IF Len(taken) < Len(tasks) /\ tasks[Len(taken) + 1].st = "done"
    THEN {Len(taken) + 1} ELSE {}

\* A bug the loop could have: it stops at the first result.
LoopOver_FirstResult(tasks, taken) == Len(taken) >= 1 \/ Len(tasks) = 0

\* The for loop over the futures has taken every result; every task is done
\* then, and the with block's shutdown(wait=True) returns at once.
LoopOver(tasks, taken) == Len(taken) = Len(tasks)

NoLinks == [kind |-> "unset", links |-> << >>]

Init ==
    /\ CrawlOff
    /\ fetch = Off /\ ia = Off /\ ag = Off /\ ex = Off

\* mw = MarketWatchScrapper(..., max_workers=w); mw.download()
StartDownload ==
    /\ pc = "Idle"
    /\ \E w \in 1..MaxWorkers : max_workers' = w
    /\ pc' = "FetchingIndex"
    /\ UNCHANGED <<records, dtasks, collected, all_links, article_links,
                   xtasks, all_articles, hist, fetch, ia, ag, ex>>

\* get_all_article_links up to the submission of its tasks (line 378-381).
EnterDiscovery(recs, how) ==
    /\ records' = recs
    /\ dtasks' = LET P(i) == NoLinks IN QueuedTasks(Len(recs), P)
    /\ collected' = << >>
    /\ all_links' = << >>
    /\ hist' = [hist EXCEPT !.index = how]
    /\ pc' = "DiscoveringLinks"
    /\ UNCHANGED <<max_workers, article_links, xtasks, all_articles,
                   fetch, ia, ag, ex>>

\* A bug cdx_query could have: what its docstring says, an exception when
\* the request fails.
IndexFetchFails_Raises ==
    /\ pc = "FetchingIndex"
    /\ pc' = "Raised"
    /\ hist' = [hist EXCEPT !.index = "failed"]
    /\ UNCHANGED <<max_workers, records, dtasks, collected, all_links,
                   article_links, xtasks, all_articles, fetch, ia, ag, ex>>

\* cdx_query: safe_get returned None (lines 135-137).
IndexFetchFails ==
    /\ pc = "FetchingIndex"
    /\ EnterDiscovery(<< >>, "failed")

\* cdx_query: the body is JSON, a header row and n rows (lines 139-142);
\* get_all_records returns [] for none of them (lines 320-324).
IndexReturnsRows ==
    /\ pc = "FetchingIndex"
    /\ \E n \in 0..MaxRows :
        EnterDiscovery(FanOut([r \in 1..n |-> r]),
                       IF n = 0 THEN "zero" ELSE "rows")

\* cdx_query: resp.json() raises on a body that is not JSON (line 139);
\* nothing catches it.
IndexMalformed ==
    /\ pc = "FetchingIndex"
    /\ pc' = "Raised"
    /\ hist' = [hist EXCEPT !.index = "malformed"]
    /\ UNCHANGED <<max_workers, records, dtasks, collected, all_links,
                   article_links, xtasks, all_articles, fetch, ia, ag, ex>>

\* A worker thread takes _do_get_article_links(record) from the queue.
DStart(i) ==
    /\ pc \in {"DiscoveringLinks", "DiscoveryFailing"}
    /\ CanStart(dtasks, i, max_workers)
    /\ dtasks' = [dtasks EXCEPT ![i].st = "running"]
    /\ UNCHANGED <<pc, max_workers, records, collected, all_links,
                   article_links, xtasks, all_articles, hist, fetch, ia, ag, ex>>

DDone(i, out) ==
    /\ dtasks' = [dtasks EXCEPT ![i] = [st |-> "done", out |-> out]]
    /\ hist' = [hist EXCEPT !.pageFetches = @ + 1,
                            !.dfinished = Append(@, i)]
    /\ UNCHANGED <<pc, max_workers, records, collected, all_links,
                   article_links, xtasks, all_articles, fetch, ia, ag, ex>>

\* _do_get_article_links: safe_get returned None (lines 363-365).
DFetchFails(i) ==
    /\ pc \in {"DiscoveringLinks", "DiscoveryFailing"}
    /\ dtasks[i].st = "running"
    /\ DDone(i, [kind |-> "none", links |-> << >>])

\* _do_get_article_links: BeautifulSoup or extract_article_links raises
\* (lines 367-368); the future keeps the exception.
DParseRaises(i) ==
    /\ pc \in {"DiscoveringLinks", "DiscoveryFailing"}
    /\ dtasks[i].st = "running"
    /\ DDone(i, [kind |-> "error", links |-> << >>])

\* _do_get_article_links: the page's links, in the order of list(set(...))
\* (lines 367-369).
DReturnsLinks(i) ==
    /\ pc \in {"DiscoveringLinks", "DiscoveryFailing"}
    /\ dtasks[i].st = "running"
    /\ \E p \in Pages : \E l \in ListsOf(extract_article_links(p)) :
           DDone(i, [kind |-> "links", links |-> l])

\* Lines 383-386: future.result() of the next future: its exception leaves
\* the loop, its non-empty list is added to all_links.
DCollect ==
    /\ pc = "DiscoveringLinks"
    /\ \E i \in NextCollectable(dtasks, collected) :
        /\ collected' = Append(collected, i)
        /\ IF dtasks[i].out.kind = "error"
           THEN pc' = "DiscoveryFailing" /\ UNCHANGED all_links
           ELSE pc' = pc /\ all_links' = all_links \o dtasks[i].out.links
    /\ UNCHANGED <<max_workers, records, dtasks, article_links, xtasks,
                   all_articles, hist, fetch, ia, ag, ex>>

\* The with block is left by the exception: executor.shutdown waits for
\* every task, then download() raises.
DRaise ==
    /\ pc = "DiscoveryFailing"
    /\ \A i \in 1..Len(dtasks) : dtasks[i].st = "done"
    /\ pc' = "Raised"
    /\ UNCHANGED <<max_workers, records, dtasks, collected, all_links,
                   article_links, xtasks, all_articles, hist, fetch, ia, ag, ex>>

\* Lines 388-402 and 414-426: the loop is over, the with block is left, the
\* links are grouped; download() raises to_datetime's error, returns [] for
\* no group, or submits one task per group.
AggregateLinks ==
    /\ pc = "DiscoveringLinks"
    /\ LoopOver(dtasks, collected)
    /\ LET out == Aggregate(all_links)
       IN  /\ hist' = [hist EXCEPT !.aggRuns = @ + 1]
           /\ collected' = << >>
           /\ IF out.raised
              THEN /\ pc' = "Raised"
                   /\ UNCHANGED <<article_links, xtasks>>
              ELSE /\ article_links' = out.groups
                   /\ IF out.groups = << >>
                      THEN pc' = "Done" /\ UNCHANGED xtasks
                      ELSE /\ pc' = "ExtractingArticles"
                           /\ xtasks' = LET P(i) == NewCall(out.groups[i])
                                        IN  QueuedTasks(Len(out.groups), P)
    /\ UNCHANGED <<max_workers, records, dtasks, all_links, all_articles,
                   fetch, ia, ag, ex>>

\* A worker thread takes process_article_url(link_list, session).
XStart(i) ==
    /\ pc = "ExtractingArticles"
    /\ CanStart(xtasks, i, max_workers)
    /\ xtasks' = [xtasks EXCEPT ![i].st = "running"]
    /\ UNCHANGED <<pc, max_workers, records, dtasks, collected, all_links,
                   article_links, all_articles, hist, fetch, ia, ag, ex>>

\* One pass of process_article_url's loop in task i.
XTryVariant(i) ==
    /\ pc = "ExtractingArticles"
    /\ xtasks[i].st = "running"
    /\ ~xtasks[i].out.returned /\ xtasks[i].out.i <= Len(xtasks[i].out.urls)
    /\ \E o \in {FetchFailed, Not200, ParserRaised, Parsed(KwExample)} :
           xtasks' = [xtasks EXCEPT ![i].out = TryVariant(@, o)]
    /\ UNCHANGED <<pc, max_workers, records, dtasks, collected, all_links,
                   article_links, all_articles, hist, fetch, ia, ag, ex>>

\* process_article_url returns: the record, or None after the last variant.
XFinish(i) ==
    /\ pc = "ExtractingArticles"
    /\ xtasks[i].st = "running"
    /\ xtasks[i].out.returned \/ xtasks[i].out.i > Len(xtasks[i].out.urls)
    /\ xtasks' = [xtasks EXCEPT
                    ![i].st = "done",
                    ![i].out = IF @.returned THEN @ ELSE ReturnNone(@)]
    /\ hist' = [hist EXCEPT !.xfinished = Append(@, i)]
    /\ UNCHANGED <<pc, max_workers, records, dtasks, collected, all_links,
                   article_links, all_articles, fetch, ia, ag, ex>>

\* Lines 428-431: future.result() of the next future; a record is appended.
XCollect ==
    /\ pc = "ExtractingArticles"
    /\ \E i \in NextCollectable(xtasks, collected) :
        /\ collected' = Append(collected, i)
        /\ all_articles' = IF xtasks[i].out.result # NoRecord
                           THEN Append(all_articles, xtasks[i].out.result)
                           ELSE all_articles
    /\ UNCHANGED <<pc, max_workers, records, dtasks, all_links,
                   article_links, xtasks, hist, fetch, ia, ag, ex>>

\* Lines 432-436: the loop is over and the with block left; return.
FinishDownload ==
    /\ pc = "ExtractingArticles"
    /\ LoopOver(xtasks, collected)
    /\ pc' = "Done"
    /\ UNCHANGED <<max_workers, records, dtasks, collected, all_links,
                   article_links, xtasks, all_articles, hist, fetch, ia, ag, ex>>

DStartSome == \E i \in 1..Len(dtasks) : DStart(i)
DFetchFailsSome == \E i \in 1..Len(dtasks) : DFetchFails(i)
DParseRaisesSome == \E i \in 1..Len(dtasks) : DParseRaises(i)
DReturnsLinksSome == \E i \in 1..Len(dtasks) : DReturnsLinks(i)
XStartSome == \E i \in 1..Len(xtasks) : XStart(i)
XTryVariantSome == \E i \in 1..Len(xtasks) : XTryVariant(i)
XFinishSome == \E i \in 1..Len(xtasks) : XFinish(i)

Next ==
    \/ StartDownload
    \/ IndexFetchFails
    \/ IndexReturnsRows
    \/ IndexMalformed
    \/ DStartSome
    \/ DFetchFailsSome
    \/ DParseRaisesSome
    \/ DReturnsLinksSome
    \/ DCollect
    \/ DRaise
    \/ AggregateLinks
    \/ XStartSome
    \/ XTryVariantSome
    \/ XFinishSome
    \/ XCollect
    \/ FinishDownload

Spec == Init /\ [][Next]_vars

\* The index query yielded no records: the fetch failed or there were no rows.
IndexEmpty == hist.index \in {"failed", "zero"}

\* The groups of which some variant was fetched with status 200 and parsed.
GroupsWithGoodVariant ==
    {i \in 1..Len(xtasks) : xtasks[i].out.firstGood # 0}

\* C2 as stated: whatever the snapshot pages and the article variants do
\* (fetch failure, parse error, status other than 200), download() does not
\* raise, and what it returns at Done is one record for every group that
\* has a succeeding variant.  (Stated for crawls whose index body is JSON
\* and whose links hold no 8 digits that are no date.)
C2_NoItemAbortsCrawl ==
    ( /\ hist.index # "malformed"
      /\ \A i \in 1..Len(dtasks) : \A k \in 1..Len(dtasks[i].out.links) :
             ParsesAsDate(FirstDigits8(dtasks[i].out.links[k])) )
    => /\ pc # "Raised"
       /\ pc = "Done" =>
            /\ Len(all_articles) = Cardinality(GroupsWithGoodVariant)
            /\ \A i \in GroupsWithGoodVariant :
                   \E k \in 1..Len(all_articles) :
                       all_articles[k].url
                           = xtasks[i].out.urls[xtasks[i].out.firstGood]

C8_TakenAsCompleted ==
    pc \in {"ExtractingArticles", "Done"} =>
        collected = SubSeq(hist.xfinished, 1, Len(collected))

\* The records of the tasks in l, task by task.
RECURSIVE RecordsOf(_)
RecordsOf(l) ==
    IF l = << >> THEN << >>
    ELSE (IF xtasks[l[1]].out.result # NoRecord
          THEN <<xtasks[l[1]].out.result>> ELSE << >>) \o RecordsOf(Tail(l))

\* C8 amended: the results of the extraction tasks are taken in the order
\* in which the groups were submitted, whatever order the tasks finish in;
\* the list holds the records of the tasks taken so far in submission
\* order, so a group submitted later never comes before an earlier one.
C8_TakenInSubmissionOrder ==
    pc \in {"ExtractingArticles", "Done"} =>
        /\ collected = [k \in 1..Len(collected) |-> k]
        /\ all_articles = RecordsOf([k \in 1..Len(collected) |-> k])

\* download() has returned after the second group's task finished before
\* the first group's.
C8_Witness ==
    /\ pc = "Done"
    /\ Len(hist.xfinished) >= 2
    /\ hist.xfinished[1] = 2
    /\ collected = [k \in 1..Len(xtasks) |-> k]

\* The link lists the discovery tasks returned, joined in record order.
RECURSIVE LinksInRecordOrder(_)
LinksInRecordOrder(k) ==
    IF k = 0 THEN << >>
    ELSE LinksInRecordOrder(k - 1) \o dtasks[k].out.links

\* C9: the links are grouped only when every discovery task is done, in
\* the one step that sets the groups, and the groups (or the grouping's
\* error) are those of the pages' link lists joined in record order,
\* whatever order the tasks ran and finished in.
C9_GroupingAfterDiscoveryAndDeterministic ==
    [][ /\ article_links' # article_links => hist'.aggRuns # hist.aggRuns
        /\ hist'.aggRuns # hist.aggRuns =>
            /\ \A i \in 1..Len(dtasks) : dtasks[i].st = "done"
            /\ dtasks' = dtasks
            /\ LET out == Aggregate(LinksInRecordOrder(Len(dtasks)))
               IN  IF pc' = "Raised" THEN out.raised
                   ELSE ~out.raised /\ article_links' = out.groups ]_vars

\* The links are grouped after the second page's task finished before the
\* first's, both pages having a capture of the same story.
C9_Witness ==
    /\ hist.aggRuns = 1
    /\ pc = "ExtractingArticles"
    /\ hist.dfinished = <<2, 1>>
    /\ dtasks[1].out.links = << Archived(Ts1, <<"https://">> \o StoryA) >>
    /\ Len(dtasks[2].out.links) = 2
    /\ \E g \in 1..Len(article_links) :
           article_links[g] = << Archived(Ts1, <<"https://">> \o StoryA),
                                 Archived(Ts2, <<"https://">> \o StoryA) >>

\* C10: never more than max_workers tasks run at once, in either stage, and
\* no extraction task is started while a discovery task is not done.
C10_AtMostMaxWorkersRunning ==
    /\ Cardinality(Running(dtasks)) + Cardinality(Running(xtasks)) <= max_workers
    /\ (\E i \in 1..Len(xtasks) : xtasks[i].st # "queued")
           => \A i \in 1..Len(dtasks) : dtasks[i].st = "done"
    /\ xtasks # << >> => \A i \in 1..Len(dtasks) : dtasks[i].st = "done"

\* Two extraction tasks run on a pool of two while a third group waits.
C10_Witness ==
    /\ pc = "ExtractingArticles"
    /\ max_workers = 2
    /\ Cardinality(Running(xtasks)) = 2
    /\ \E i \in 1..Len(xtasks) : xtasks[i].st = "queued"

===========================================================================
